---- MODULE Spec2Model ----
(***************************************************************************)
(* Kuramoto simulation engine (src/src/lib/kuramoto.ts) and its React hook *)
(* useKuramoto (src/unnamed/part_001), as driven by KuramotoLivePage and   *)
(* Controls.                                                               *)
(*                                                                         *)
(* Numbers.  The code works on IEEE doubles.  The model works on exact     *)
(* integers on a grid:                                                     *)
(*   - an angle is a whole number of quarter turns (Pi = 2 units), so that *)
(*     Math.sin and Math.cos are exact (values -1, 0, 1);                  *)
(*   - time (dt, the time debt, the simulation clock) is a whole number of *)
(*     tenths of a millisecond: 0.5 s = 5000 units, 0.05 s = 500 units;    *)
(*   - a division of the code is \div; the input sets are chosen so that   *)
(*     the divisions the claims rest on are exact.                         *)
(* The order parameter {r, psi} is kept in Cartesian form (the two sums),  *)
(* from which r * sin(psi - a) is exact; r itself is kept squared.         *)
(***************************************************************************)
EXTENDS Integers, Sequences, FiniteSets, TLC

(* ------------------------------ bounds -------------------------------- *)

\* Largest number of oscillators explored.
MaxN == 3

(* ------------------------ program constants --------------------------- *)

\* Math.PI in angle units (quarter turns).
Pi == 2
\* Clamp of the wall time of one frame: 0.5 s.
MaxWall == 5000
\* Cap of integrator steps per frame.
MaxSteps == 5000
\* Minimum simulation time between two chart samples: 0.05 s.
ChartGap == 500
\* Capacity of the r(t) sample buffer.
ChartCap == 600

(* --------------------------- arithmetic ------------------------------- *)

Idx(n) == 0 .. (n - 1)

Len0(a) == Cardinality(DOMAIN a)

Zeros(n) == [i \in Idx(n) |-> 0]

Min(a, b) == IF a < b THEN a ELSE b

Max(a, b) == IF a > b THEN a ELSE b

\* Math.sin on the quarter-turn grid.
Sin(a) ==
    LET m == a % (2 * Pi)
    IN  CASE m = 0 -> 0
          [] m = 1 -> 1
          [] m = 2 -> 0
          [] m = 3 -> -1

\* Math.cos on the quarter-turn grid.
Cos(a) == Sin(a + 1)

\* Math.atan2(s, c) for a vector (c, s) on one of the four axes (or zero).
Atan2(s, c) ==
    CASE s = 0 /\ c >= 0 -> 0
      [] s > 0 /\ c = 0 -> 1
      [] s = 0 /\ c < 0 -> Pi
      [] s < 0 /\ c = 0 -> -1

\* Math.sqrt, rounded down to the grid.
Sqrt(x) == CHOOSE r \in 0 .. x : r * r <= x /\ (r + 1) * (r + 1) > x

RECURSIVE SumTo(_, _)
\* f[0] + ... + f[n-1].
SumTo(f, n) == IF n = 0 THEN 0 ELSE SumTo(f, n - 1) + f[n - 1]

\* Texts are sequences of characters.
DigitChars == <<"0", "1", "2", "3", "4", "5", "6", "7", "8", "9">>

RECURSIVE String(_)
\* String(n) for an integer n: its decimal digits, after "-" when negative.
String(n) ==
    IF n < 0 THEN <<"-">> \o String(-n)
    ELSE IF n < 10 THEN <<DigitChars[n + 1]>>
    ELSE String(n \div 10) \o <<DigitChars[(n % 10) + 1]>>

(* --------------------------- kuramoto.ts ------------------------------ *)

\* Topology kinds: those of kuramoto.ts plus "er", the value Controls emits.
LibTopologies == {"all", "ring", "erdos-renyi"}
ControlsTopologies == {"all", "ring", "er"}

\* The values an adjacency can take: null, undefined, or N neighbor lists
\* (lists[i] is a sequence, in push order).
AdjNull == [tag |-> "null", lists |-> << >>]
AdjUndefined == [tag |-> "undefined", lists |-> << >>]
AdjLists(l) == [tag |-> "lists", lists |-> l]

\* The unordered pairs (i, j), i < j, in the order of the two nested loops.
RECURSIVE PairsFrom(_, _, _)
PairsFrom(i, j, n) ==
    IF i >= n THEN << >>
    ELSE IF j >= n THEN PairsFrom(i + 1, i + 2, n)
    ELSE << <<i, j>> >> \o PairsFrom(i, j + 1, n)

PairSet(n) == {p \in Idx(n) \X Idx(n) : p[1] < p[2]}

\* Variant of ErdosRenyi that records an edge at its first end only.
RECURSIVE ErdosRenyiOneWay(_, _, _, _)
ErdosRenyiOneWay(adj, pairs, p, u) ==
    IF pairs = << >> THEN adj
    ELSE LET i == Head(pairs)[1]
             j == Head(pairs)[2]
             nxt == IF u[Head(pairs)] < p
                    THEN [adj EXCEPT ![i] = Append(@, j)]
                    ELSE adj
         IN  ErdosRenyiOneWay(nxt, Tail(pairs), p, u)

\* Variant of ErdosRenyi that pushes j where i was meant.
RECURSIVE ErdosRenyiSelf(_, _, _, _)
ErdosRenyiSelf(adj, pairs, p, u) ==
    IF pairs = << >> THEN adj
    ELSE LET i == Head(pairs)[1]
             j == Head(pairs)[2]
             nxt == IF u[Head(pairs)] < p
                    THEN [adj EXCEPT ![i] = Append(@, j), ![j] = Append(@, j)]
                    ELSE adj
         IN  ErdosRenyiSelf(nxt, Tail(pairs), p, u)

\* Variant of ErdosRenyi that compares with <=.
RECURSIVE ErdosRenyiInclusive(_, _, _, _)
ErdosRenyiInclusive(adj, pairs, p, u) ==
    IF pairs = << >> THEN adj
    ELSE LET i == Head(pairs)[1]
             j == Head(pairs)[2]
             nxt == IF u[Head(pairs)] <= p
                    THEN [adj EXCEPT ![i] = Append(@, j), ![j] = Append(@, i)]
                    ELSE adj
         IN  ErdosRenyiInclusive(nxt, Tail(pairs), p, u)

\* The random branch: u[<<i, j>>] is the value Math.random() returns for the
\* pair, in hundredths; p is in hundredths too.
RECURSIVE ErdosRenyi(_, _, _, _)
ErdosRenyi(adj, pairs, p, u) ==
    IF pairs = << >> THEN adj
    ELSE LET i == Head(pairs)[1]
             j == Head(pairs)[2]
             nxt == IF u[Head(pairs)] < p
                    THEN [adj EXCEPT ![i] = Append(@, j), ![j] = Append(@, i)]
                    ELSE adj
         IN  ErdosRenyi(nxt, Tail(pairs), p, u)

\* Variant of buildAdjacency whose ring pushes L and R unconditionally.
buildAdjacencyBothEnds(type, N, p, u) ==
    IF type = "all" THEN AdjNull
    ELSE IF type = "ring" THEN
        AdjLists([i \in Idx(N) |-> <<(i - 1 + N) % N, (i + 1) % N>>])
    ELSE IF type = "erdos-renyi" THEN
        AdjLists(ErdosRenyi([i \in Idx(N) |-> << >>], PairsFrom(0, 1, N), p, u))
    ELSE AdjUndefined

buildAdjacency(type, N, p, u) ==
    IF type = "all" THEN AdjNull
    ELSE IF type = "ring" THEN
        AdjLists([i \in Idx(N) |->
            LET L == (i - 1 + N) % N
                R == (i + 1) % N
            IN  IF L = R THEN <<L>> ELSE <<L, R>>])
    ELSE IF type = "erdos-renyi" THEN
        AdjLists(ErdosRenyi([i \in Idx(N) |-> << >>], PairsFrom(0, 1, N), p, u))
    ELSE AdjUndefined

\* Variant of wrapAngle that reduces into [-pi, pi).
wrapAngleLow(theta) == ((theta + Pi) % (2 * Pi)) - Pi

wrapAngle(theta) == Atan2(Sin(theta), Cos(theta))

\* {r, psi} in Cartesian form: cx and sx are the two sums, n the divisor.
computeOrder(thetas) ==
    [cx |-> SumTo([i \in DOMAIN thetas |-> Cos(thetas[i])], Len0(thetas)),
     sx |-> SumTo([i \in DOMAIN thetas |-> Sin(thetas[i])], Len0(thetas)),
     n  |-> Len0(thetas)]

\* Variant of RSin with the difference reversed: n * r * sin(a - psi).
RSinReversed(o, a) == o.cx * Sin(a) - o.sx * Cos(a)

\* n * r * sin(psi - a) for an order parameter o.
RSin(o, a) == o.sx * Cos(a) - o.cx * Sin(a)

\* n^2 * r^2 for an order parameter o: the magnitude a chart sample records.
RSq(o) == o.cx * o.cx + o.sx * o.sx

\* field: the buffer out after the call, and whether the call threw.
\* With an adjacency list the loop computes s and a coupling and stores nothing.
field(out, theta, omega, ctx) ==
    LET N == Len0(theta)
    IN  IF ctx.adj.tag = "null" THEN
            [out |-> [i \in DOMAIN out |->
                        IF i \in Idx(N)
                        THEN omega[i] + (ctx.K * RSin(computeOrder(theta), theta[i])) \div N
                        ELSE out[i]],
             threw |-> FALSE]
        ELSE IF ctx.adj.tag = "undefined" THEN
            [out |-> out, threw |-> N > 0]
        ELSE
            [out |-> out,
             threw |-> \E i \in Idx(N) : i \notin DOMAIN ctx.adj.lists]

(* ------------------------------ gaussian ------------------------------ *)

\* The pairs of deviates (r cos t, r sin t) one pair of uniform draws yields
\* in the model.
DeviatePairs == {<<1, -1>>, <<-1, 1>>}

\* The closure variable spare: << >> is null, <<z>> a cached deviate.
\* An rng state is the spare, the fresh pairs (r cos t, r sin t) that the next
\* uniform draws will yield, and the number of calls made so far.
RngState(spare, pairs) == [spare |-> spare, pairs |-> pairs, calls |-> 0]

\* Variant of gaussian that returns the cached deviate and keeps it cached.
gaussianKeepsSpare(rng) ==
    IF rng.spare # << >>
    THEN [z |-> rng.spare[1], rng |-> [rng EXCEPT !.calls = @ + 1]]
    ELSE [z |-> Head(rng.pairs)[1],
          rng |-> [spare |-> <<Head(rng.pairs)[2]>>,
                   pairs |-> Tail(rng.pairs),
                   calls |-> rng.calls + 1]]

\* One call of gaussian(): the deviate returned and the rng state after it.
gaussian(rng) ==
    IF rng.spare # << >>
    THEN [z |-> rng.spare[1],
          rng |-> [rng EXCEPT !.spare = << >>, !.calls = @ + 1]]
    ELSE [z |-> Head(rng.pairs)[1],
          rng |-> [spare |-> <<Head(rng.pairs)[2]>>,
                   pairs |-> Tail(rng.pairs),
                   calls |-> rng.calls + 1]]

(* ----------------------------- integrators ---------------------------- *)

\* Variant of Sig that scales by a negative amplitude too.
SigNonZero(dt, noise) == IF noise # 0 THEN Sqrt(dt) * noise ELSE 0

\* sig = noise > 0 ? Math.sqrt(dt) * noise : 0
Sig(dt, noise) == IF noise > 0 THEN Sqrt(dt) * noise ELSE 0

\* Variant of Commit that leaves theta one entry longer.
CommitPastEnd(theta, incr, sig, rng, i) ==
    [theta |-> [j \in 0 .. Len0(theta) |-> 0], rng |-> rng]

RECURSIVE Commit(_, _, _, _, _)
\* The final loop of every integrator, from index i on:
\* theta[i] = wrapAngle(theta[i] + incr[i] + dW), dW = sig ? sig * rng() : 0.
Commit(theta, incr, sig, rng, i) ==
    IF i >= Len0(theta) THEN [theta |-> theta, rng |-> rng]
    ELSE LET g == IF sig # 0 THEN gaussian(rng) ELSE [z |-> 0, rng |-> rng]
             dW == IF sig # 0 THEN sig * g.z ELSE 0
         IN  Commit([theta EXCEPT ![i] = wrapAngle(theta[i] + incr[i] + dW)],
                    incr, sig, g.rng, i + 1)

\* An integrator's result: theta, the scratch and the rng after the call, and
\* whether the call threw (a TypeError) before completing.
Threw(theta, tmp, rng) == [theta |-> theta, tmp |-> tmp, rng |-> rng, threw |-> TRUE]

Done(c, tmp) == [theta |-> c.theta, tmp |-> tmp, rng |-> c.rng, threw |-> FALSE]

\* field(tmp[k], th, omega, ctx): the scratch after the call, and whether it threw.
FieldInto(tmp, k, th, omega, ctx) ==
    LET f == field(tmp[k], th, omega, ctx)
    IN  [tmp |-> [tmp EXCEPT ![k] = f.out], threw |-> f.threw]

\* Variant of Stage that stores the intermediate phase as it is.
StageUnwrapped(theta, k, dt, den) ==
    [i \in DOMAIN theta |-> theta[i] + (dt * k[i]) \div den]

\* tempTheta[i] = wrapAngle(theta[i] + (num/den) * dt * k[i]) for every i.
Stage(theta, k, dt, den) ==
    [i \in DOMAIN theta |-> wrapAngle(theta[i] + (dt * k[i]) \div den)]

stepEuler(theta, omega, dt, noise, ctx, rng, tmp) ==
    LET a == FieldInto(tmp, "k1", theta, omega, ctx)
    IN  IF a.threw THEN Threw(theta, tmp, rng)
        ELSE Done(Commit(theta, [i \in DOMAIN theta |-> dt * a.tmp.k1[i]],
                         Sig(dt, noise), rng, 0), a.tmp)

\* stepRK2 from field(k2, tempTheta, omega, ctx) on; t is the scratch then.
RK2Final(theta, omega, dt, noise, ctx, rng, t) ==
    LET b == FieldInto(t, "k2", t.tempTheta, omega, ctx)
    IN  IF b.threw THEN Threw(theta, t, rng)
        ELSE Done(Commit(theta, [i \in DOMAIN theta |-> dt * b.tmp.k2[i]],
                         Sig(dt, noise), rng, 0), b.tmp)

\* The scratch of useKuramoto has no property tempTheta: the first store into
\* the undefined tempTheta throws (N > 0).
stepRK2(theta, omega, dt, noise, ctx, rng, tmp) ==
    LET a == FieldInto(tmp, "k1", theta, omega, ctx)
    IN  IF a.threw THEN Threw(theta, tmp, rng)
        ELSE IF "tempTheta" \notin DOMAIN tmp THEN Threw(theta, a.tmp, rng)
        ELSE RK2Final(theta, omega, dt, noise, ctx, rng,
                      [a.tmp EXCEPT !.tempTheta = Stage(theta, a.tmp.k1, dt, 2)])

\* stepRK4's final loop; t is the scratch with k1..k4 computed.
RK4Final(theta, dt, noise, rng, t) ==
    Done(Commit(theta,
                [i \in DOMAIN theta |->
                    (dt * (t.k1[i] + 2 * t.k2[i] + 2 * t.k3[i] + t.k4[i])) \div 6],
                Sig(dt, noise), rng, 0), t)

\* stepRK4 from field(k4, tempTheta, omega, ctx) on.
RK4Stage4(theta, omega, dt, noise, ctx, rng, t) ==
    LET d == FieldInto(t, "k4", t.tempTheta, omega, ctx)
    IN  IF d.threw THEN Threw(theta, t, rng)
        ELSE RK4Final(theta, dt, noise, rng, d.tmp)

\* stepRK4 from field(k3, tempTheta, omega, ctx) on.
RK4Stage3(theta, omega, dt, noise, ctx, rng, t) ==
    LET c == FieldInto(t, "k3", t.tempTheta, omega, ctx)
    IN  IF c.threw THEN Threw(theta, t, rng)
        ELSE RK4Stage4(theta, omega, dt, noise, ctx, rng,
                       [c.tmp EXCEPT !.tempTheta = Stage(theta, c.tmp.k3, dt, 1)])

\* stepRK4 from field(k2, tempTheta, omega, ctx) on.
RK4Stage2(theta, omega, dt, noise, ctx, rng, t) ==
    LET b == FieldInto(t, "k2", t.tempTheta, omega, ctx)
    IN  IF b.threw THEN Threw(theta, t, rng)
        ELSE RK4Stage3(theta, omega, dt, noise, ctx, rng,
                       [b.tmp EXCEPT !.tempTheta = Stage(theta, b.tmp.k2, dt, 2)])

stepRK4(theta, omega, dt, noise, ctx, rng, tmp) ==
    LET a == FieldInto(tmp, "k1", theta, omega, ctx)
    IN  IF a.threw THEN Threw(theta, tmp, rng)
        ELSE IF "tempTheta" \notin DOMAIN tmp THEN Threw(theta, a.tmp, rng)
        ELSE RK4Stage2(theta, omega, dt, noise, ctx, rng,
                       [a.tmp EXCEPT !.tempTheta = Stage(theta, a.tmp.k1, dt, 2)])

\* Calls the integrator of the given name.
Invoke(name, theta, omega, dt, noise, ctx, rng, tmp) ==
    CASE name = "stepEuler" -> stepEuler(theta, omega, dt, noise, ctx, rng, tmp)
      [] name = "stepRK2" -> stepRK2(theta, omega, dt, noise, ctx, rng, tmp)
      [] name = "stepRK4" -> stepRK4(theta, omega, dt, noise, ctx, rng, tmp)

(* ------------------------------- state -------------------------------- *)

VARIABLES
    opts,       \* the options of useKuramoto: N, K, dt, noise, topology, erProb,
                \* method, running, speed
    theta,      \* theta.current
    omega,      \* omega.current
    ctx,        \* ctx.current: [K, adj]
    tmp,        \* tmp.current: the scratch object (a record of its properties)
    spare,      \* the closure variable of gaussian
    rBuf,       \* rBuf.current: sequence of [t, r]
    tRef,       \* tRef.current
    lastChart,  \* lastChart.current
    raf,        \* TRUE while a frame requested by the loop is pending
    acc,        \* the loop's time debt
    steps,      \* the loop's step counter of the frame being run
    pc,         \* "idle", or "loop" inside a frame callback
    err,        \* TRUE when the last frame callback ended with an uncaught error
    call,       \* the last operation: its name, theta and scratch before it,
                \* whether it threw, the number of rng calls it made
    frame,      \* the last frame callback: the elapsed wall time it measured and
                \* the time debt, lastChart and buffer length it started with
    nOps,       \* the number of user operations made so far
    nText       \* the text of the oscillator-count field of KuramotoLivePage

vars == <<opts, theta, omega, ctx, tmp, spare, rBuf, tRef, lastChart, raf, acc,
          steps, pc, err, call, frame, nOps, nText>>

loopVars == <<rBuf, tRef, lastChart, raf, acc, steps, pc, err>>

\* The scratch object useKuramoto builds: k1..k4 and tmpTheta.
HookScratch(n) ==
    [k1 |-> Zeros(n), k2 |-> Zeros(n), k3 |-> Zeros(n), k4 |-> Zeros(n),
     tmpTheta |-> Zeros(n)]

\* A scratch object with every property of the Scratch interface.
LibScratch(n) ==
    [k1 |-> Zeros(n), k2 |-> Zeros(n), k3 |-> Zeros(n), k4 |-> Zeros(n),
     tempTheta |-> Zeros(n)]

\* The chart buffer a fresh hook or resetChart builds.
FreshChart(th) == << [t |-> 0, r |-> RSq(computeOrder(th))] >>

CallRecord(fn, th, t, threw, n) ==
    [fn |-> fn, theta0 |-> th, tmp0 |-> t, threw |-> threw, rngCalls |-> n]

(* ------------------- the library functions, called directly ----------- *)

\* Input sets of the direct calls.
ThetaVals == {0, 1, 2}
OmegaSet(n) == {Zeros(n), [i \in Idx(n) |-> 1 - i]}
KVals == {0, 12}
Uniforms == {0, 99}
StaleVal == 7

\* The fresh pairs a call may draw: none without noise.
FreshPairs(n, sig) ==
    IF sig = 0 THEN {<< >>}
    ELSE [1 .. ((n + 1) \div 2) -> DeviatePairs]

InitField ==
    /\ \E n \in 2 .. MaxN, top \in LibTopologies \cup ControlsTopologies :
       \E p \in (IF top = "erdos-renyi" THEN {0, 50, 100} ELSE {50}) :
       \E u \in (IF top = "erdos-renyi" /\ p = 50
                 THEN [PairSet(n) -> Uniforms] ELSE {[q \in PairSet(n) |-> 0]}) :
       \E k \in KVals, d \in {0, 1, 6}, nz \in {-1, 0, 1} :
          /\ nz < 0 => (k = 0 /\ d = 1)    \* a negative amplitude: one case
          /\ opts = [N |-> n, K |-> k, dt |-> d, noise |-> nz, topology |-> top,
                     erProb |-> p, method |-> "euler", running |-> FALSE, speed |-> 1]
          /\ theta \in {th \in [Idx(n) -> ThetaVals] : th[0] = 0}
          /\ omega \in OmegaSet(n)
          /\ ctx = [K |-> k, adj |-> buildAdjacency(top, n, p, u)]
          /\ \E stale \in {0, StaleVal}, s \in {HookScratch(n), LibScratch(n)} :
                tmp = [s EXCEPT !.k1 = [i \in Idx(n) |-> stale]]
    /\ spare = << >>
    /\ rBuf = FreshChart(theta)
    /\ tRef = 0
    /\ lastChart = 0
    /\ raf = FALSE
    /\ acc = 0
    /\ steps = 0
    /\ pc = "idle"
    /\ err = FALSE
    /\ call = CallRecord("init", theta, tmp, FALSE, 0)
    /\ frame = [elapsed |-> 0, acc0 |-> 0, lastChart0 |-> 0, len0 |-> 1]
    /\ nOps = 0
    /\ nText = String(opts.N)

\* field(tmp.k1, theta, omega, ctx)
CallField ==
    /\ call.fn = "init"
    /\ LET f == field(tmp.k1, theta, omega, ctx)
       IN  /\ tmp' = [tmp EXCEPT !.k1 = f.out]
           /\ call' = CallRecord("field", theta, tmp, f.threw, 0)
    /\ UNCHANGED <<opts, theta, omega, ctx, spare, loopVars, frame, nOps, nText>>

\* name(theta, omega, dt, noise, ctx, gaussian, tmp); the call record keeps
\* the state of the deviate source before the call.
CallStep(name) ==
    /\ call.fn = "init"
    /\ \E pairs \in FreshPairs(opts.N, Sig(opts.dt, opts.noise)) :
         LET s == Invoke(name, theta, omega, opts.dt, opts.noise, ctx,
                         RngState(spare, pairs), tmp)
         IN  /\ theta' = s.theta
             /\ tmp' = s.tmp
             /\ spare' = s.rng.spare
             /\ call' = CallRecord(name, theta, tmp, s.threw, s.rng.calls)
                            @@ [arg |-> RngState(spare, pairs)]
    /\ UNCHANGED <<opts, omega, ctx, loopVars, frame, nOps, nText>>

CallStepEuler == CallStep("stepEuler")

CallStepRK2 == CallStep("stepRK2")

CallStepRK4 == CallStep("stepRK4")

NextField == CallField \/ CallStepEuler \/ CallStepRK2 \/ CallStepRK4

SpecField == InitField /\ [][NextField]_vars

(* ---------------------------- useKuramoto ----------------------------- *)

\* The integrators by method name, as the hook declares them.
INTEGRATORS == [euler |-> "stepEuler", rk2 |-> "stepRK2", rk4 |-> "stepRK4"]

\* The method names the hook declares, and those Controls offers.
HookMethods == {"euler", "rk2", "rk4"}
ControlsMethods == {"Euler", "RK2", "RK4"}

\* stepOnce: INTEGRATORS[method](theta, omega, dt, noise, ctx, rng, tmp).
\* A method that is no key of INTEGRATORS yields undefined, and calling it throws.
stepOnce(method, th, om, dt, noise, c, rng, t) ==
    IF method \in DOMAIN INTEGRATORS
    THEN [fn |-> INTEGRATORS[method],
          res |-> Invoke(INTEGRATORS[method], th, om, dt, noise, c, rng, t)]
    ELSE [fn |-> "undefined", res |-> Threw(th, t, rng)]

\* The names a call record gives to a step of the loop.
StepFns == {"stepEuler", "stepRK2", "stepRK4", "undefined"}

\* Variant of DtWall without the upper clamp.
DtWallUnclamped(e) == Max(0, e)

\* dtWall = Math.min(0.5, Math.max(0, (now - last) / 1000)), e = now - last.
DtWall(e) == Min(MaxWall, Max(0, e))

\* Variant of PushSample that drops the new sample when the buffer is full.
PushSampleDropsNewest(buf, sample) ==
    IF Len(buf) >= ChartCap THEN buf ELSE Append(buf, sample)

\* Variant of PushSample that evicts one entry late.
PushSampleLate(buf, sample) ==
    LET b == Append(buf, sample)
    IN  IF Len(b) > ChartCap + 1 THEN Tail(b) ELSE b

\* rBuf.current.push(sample); if (rBuf.current.length > 600) rBuf.current.shift()
PushSample(buf, sample) ==
    LET b == Append(buf, sample)
    IN  IF Len(b) > ChartCap THEN Tail(b) ELSE b

\* Variant of LoopCond that stops at a debt of exactly dt.
LoopCondStrict == acc > opts.dt /\ steps < MaxSteps

\* Variant of LoopCond that admits one step more.
LoopCondInclusive == acc >= opts.dt /\ steps <= MaxSteps

\* The condition of the loop's while statement.
LoopCond == acc >= opts.dt /\ steps < MaxSteps

\* Variant of ChartDue that accepts a gap of exactly 0.05 s.
ChartDueAtLeast == steps > 0 /\ tRef - lastChart >= ChartGap

\* The condition under which the loop records a chart sample.
ChartDue == steps > 0 /\ tRef - lastChart > ChartGap

\* Variant of LoopEffect whose cleanup leaves the pending frame.
LoopEffectNoCancel(o) ==
    /\ raf' = (raf \/ o.running)
    /\ acc' = 0
    /\ steps' = 0
    /\ err' = FALSE
    /\ pc' = "idle"

\* The effect with dependencies [running, method, dt, noise, speed]: its
\* cleanup cancels the pending frame; when running it requests a frame with a
\* fresh closure (acc = 0).
LoopEffect(o) ==
    /\ raf' = o.running
    /\ acc' = 0
    /\ steps' = 0
    /\ err' = FALSE
    /\ pc' = "idle"

\* The effect with dependencies [K, topology, N, erProb].
CtxEffect(o, u) == ctx' = [K |-> o.K, adj |-> buildAdjacency(o.topology, o.N, o.erProb, u)]

\* The uniform draws buildAdjacency may consume for the options o.
Draws(o) ==
    IF o.topology = "erdos-renyi"
    THEN [PairSet(o.N) -> Uniforms]
    ELSE {<< >>}

\* State after the first render and its effects, for the options o.
Mount(o) ==
    /\ opts = o
    /\ theta = Zeros(o.N)
    /\ omega = Zeros(o.N)
    /\ \E u \in Draws(o) :
          ctx = [K |-> o.K, adj |-> buildAdjacency(o.topology, o.N, o.erProb, u)]
    /\ tmp = HookScratch(o.N)
    /\ spare = << >>
    /\ rBuf = FreshChart(Zeros(o.N))
    /\ tRef = 0
    /\ lastChart = 0
    /\ raf = o.running
    /\ acc = 0
    /\ steps = 0
    /\ pc = "idle"
    /\ err = FALSE
    /\ call = CallRecord("init", Zeros(o.N), HookScratch(o.N), FALSE, 0)
    /\ frame = [elapsed |-> 0, acc0 |-> 0, lastChart0 |-> 0, len0 |-> 1]
    /\ nOps = 0
    /\ nText = String(opts.N)

\* A user operation: any handler other than the frame callback.
\* An operation of the page between frame callbacks.
PageOp(fn) ==
    /\ pc = "idle"
    /\ call' = CallRecord(fn, theta, tmp, FALSE, 0)
    /\ UNCHANGED frame

UserOp(fn) == PageOp(fn) /\ UNCHANGED nText

\* setRunning(!running)
ToggleRun ==
    /\ UserOp("toggleRun")
    /\ opts' = [opts EXCEPT !.running = ~@]
    /\ LoopEffect(opts')
    /\ UNCHANGED <<theta, omega, ctx, tmp, spare, rBuf, tRef, lastChart>>

\* A change of one of method, dt, noise, speed: the loop effect runs again.
SetLoopOpt(k, v) ==
    /\ UserOp("setLoopOpt")
    /\ k \in {"method", "dt", "noise", "speed"}
    /\ opts[k] # v
    /\ opts' = [opts EXCEPT ![k] = v]
    /\ LoopEffect(opts')
    /\ UNCHANGED <<theta, omega, ctx, tmp, spare, rBuf, tRef, lastChart>>

\* A change of one of K, topology, erProb: the coupling context is rebuilt.
SetCtxOpt(k, v) ==
    /\ UserOp("setCtxOpt")
    /\ k \in {"K", "topology", "erProb"}
    /\ opts[k] # v
    /\ opts' = [opts EXCEPT ![k] = v]
    /\ \E u \in Draws(opts') : CtxEffect(opts', u)
    /\ UNCHANGED <<theta, omega, tmp, spare, loopVars>>

\* Variant of NEffect that leaves the coupling context as it was.
NEffectKeepsAdjacency(n) ==
    /\ opts' = [opts EXCEPT !.N = n]
    /\ theta' = Zeros(n)
    /\ omega' = Zeros(n)
    /\ tmp' = HookScratch(n)
    /\ UNCHANGED <<ctx, spare, loopVars>>

\* The effects of a change of N: both run, the second leaving its adjacency.
NEffect(n) ==
    /\ opts' = [opts EXCEPT !.N = n]
    /\ theta' = Zeros(n)
    /\ omega' = Zeros(n)
    /\ tmp' = HookScratch(n)
    /\ \E u \in Draws(opts') : CtxEffect(opts', u)
    /\ UNCHANGED <<spare, loopVars>>

SetN(n) ==
    /\ UserOp("setN")
    /\ opts.N # n
    /\ NEffect(n)

\* seedPhases(fn): fn writes th into theta.current.
seedPhases(th) ==
    /\ UserOp("seedPhases")
    /\ DOMAIN th = DOMAIN theta
    /\ theta' = th
    /\ UNCHANGED <<opts, omega, ctx, tmp, spare, loopVars>>

\* seedOmegas(fn): fn writes w into omega.current.
seedOmegas(w) ==
    /\ UserOp("seedOmegas")
    /\ DOMAIN w = DOMAIN omega
    /\ omega' = w
    /\ UNCHANGED <<opts, theta, ctx, tmp, spare, loopVars>>

resetChart ==
    /\ UserOp("resetChart")
    /\ rBuf' = FreshChart(theta)
    /\ tRef' = 0
    /\ lastChart' = 0
    /\ UNCHANGED <<opts, theta, omega, ctx, tmp, spare, raf, acc, steps, pc, err>>

\* Variant of FrameBegin that assigns the debt instead of adding to it.
FrameBeginAssign(e) ==
    /\ pc = "idle"
    /\ raf
    /\ raf' = FALSE
    /\ acc' = DtWall(e) * opts.speed
    /\ steps' = 0
    /\ pc' = "loop"
    /\ err' = FALSE
    /\ frame' = [elapsed |-> e, acc0 |-> acc, lastChart0 |-> lastChart, len0 |-> Len(rBuf)]
    /\ call' = CallRecord("frameBegin", theta, tmp, FALSE, 0)
    /\ UNCHANGED <<opts, theta, omega, ctx, tmp, spare, rBuf, tRef, lastChart, nOps, nText>>

\* The frame callback loop(now), up to the while statement; e = now - last.
FrameBegin(e) ==
    /\ pc = "idle"
    /\ raf
    /\ raf' = FALSE
    /\ acc' = acc + DtWall(e) * opts.speed
    /\ steps' = 0
    /\ pc' = "loop"
    /\ err' = FALSE
    /\ frame' = [elapsed |-> e, acc0 |-> acc, lastChart0 |-> lastChart, len0 |-> Len(rBuf)]
    /\ call' = CallRecord("frameBegin", theta, tmp, FALSE, 0)
    /\ UNCHANGED <<opts, theta, omega, ctx, tmp, spare, rBuf, tRef, lastChart, nOps, nText>>

\* One iteration of the while statement: stepOnce(); acc -= dt; steps++;
\* tRef.current += dt.  A throwing stepOnce ends the callback: no sample is
\* recorded and no further frame is requested.
LoopStep ==
    /\ pc = "loop"
    /\ LoopCond
    /\ \E pairs \in FreshPairs(opts.N, Sig(opts.dt, opts.noise)) :
         LET s == stepOnce(opts.method, theta, omega, opts.dt, opts.noise, ctx,
                           RngState(spare, pairs), tmp)
         IN  /\ theta' = s.res.theta
             /\ tmp' = s.res.tmp
             /\ spare' = s.res.rng.spare
             /\ call' = CallRecord(s.fn, theta, tmp, s.res.threw, s.res.rng.calls)
             /\ IF s.res.threw
                THEN /\ pc' = "idle"
                     /\ err' = TRUE
                     /\ UNCHANGED <<acc, steps, tRef>>
                ELSE /\ acc' = acc - opts.dt
                     /\ steps' = steps + 1
                     /\ tRef' = tRef + opts.dt
                     /\ UNCHANGED <<pc, err>>
    /\ UNCHANGED <<opts, omega, ctx, rBuf, lastChart, raf, frame, nOps, nText>>

\* The rest of the callback: the chart sample and the next frame request.
FrameEnd ==
    /\ pc = "loop"
    /\ ~LoopCond
    /\ IF ChartDue
       THEN /\ lastChart' = tRef
            /\ rBuf' = PushSample(rBuf, [t |-> tRef, r |-> RSq(computeOrder(theta))])
       ELSE UNCHANGED <<lastChart, rBuf>>
    /\ raf' = TRUE
    /\ pc' = "idle"
    /\ call' = CallRecord("frameEnd", theta, tmp, FALSE, 0)
    /\ UNCHANGED <<opts, theta, omega, ctx, tmp, spare, tRef, acc, steps, err, frame, nOps, nText>>

(* ------------------- the hook under user operations ------------------- *)

\* Input sets: time step and elapsed wall time in units of 0.1 ms, speed,
\* noise, edge probability in hundredths.
Methods == HookMethods \cup ControlsMethods
Topologies == LibTopologies \cup ControlsTopologies
DtVals == {250, 500}
SpeedVals == {1, 2}
NoiseVals == {0, 1}
ErProbVals == {5, 30}
Elapsed == {-100, 500, 750}
SeedThetas(n) == {[i \in Idx(n) |-> (a * i) % 3] : a \in 0 .. 2}

\* Bounds of the exploration: user operations made, and the simulated time
\* up to which frames begin.
MaxOps == 1
Horizon == 1000

Init ==
    \E top \in Topologies, m \in Methods, run \in BOOLEAN :
        Mount([N |-> 2, K |-> 12, dt |-> 250, noise |-> 0, topology |-> top,
               erProb |-> 5, method |-> m, running |-> run, speed |-> 1])

SetMethod == \E m \in Methods : SetLoopOpt("method", m)

SetDt == \E d \in DtVals : SetLoopOpt("dt", d)

SetNoise == \E z \in NoiseVals : SetLoopOpt("noise", z)

SetSpeed == \E v \in SpeedVals : SetLoopOpt("speed", v)

SetK == \E k \in KVals : SetCtxOpt("K", k)

SetTopology == \E top \in Topologies : SetCtxOpt("topology", top)

SetErProb == \E p \in ErProbVals : SetCtxOpt("erProb", p)

Resize == \E n \in 2 .. MaxN : SetN(n)

SeedPhases == \E th \in SeedThetas(opts.N) : seedPhases(th)

SeedOmegas == \E w \in OmegaSet(opts.N) : seedOmegas(w)

Frame == \E e \in Elapsed : FrameBegin(e)

\* Every user operation counts against MaxOps; frames begin before Horizon.
Next ==
    \/ nOps < MaxOps /\ nOps' = nOps + 1 /\ ToggleRun
    \/ nOps < MaxOps /\ nOps' = nOps + 1 /\ SetMethod
    \/ nOps < MaxOps /\ nOps' = nOps + 1 /\ SetDt
    \/ nOps < MaxOps /\ nOps' = nOps + 1 /\ SetNoise
    \/ nOps < MaxOps /\ nOps' = nOps + 1 /\ SetSpeed
    \/ nOps < MaxOps /\ nOps' = nOps + 1 /\ SetK
    \/ nOps < MaxOps /\ nOps' = nOps + 1 /\ SetTopology
    \/ nOps < MaxOps /\ nOps' = nOps + 1 /\ SetErProb
    \/ nOps < MaxOps /\ nOps' = nOps + 1 /\ Resize
    \/ nOps < MaxOps /\ nOps' = nOps + 1 /\ SeedPhases
    \/ nOps < MaxOps /\ nOps' = nOps + 1 /\ SeedOmegas
    \/ nOps < MaxOps /\ nOps' = nOps + 1 /\ resetChart
    \/ tRef < Horizon /\ Frame
    \/ LoopStep
    \/ FrameEnd

Spec == Init /\ [][Next]_vars

(* ------------------- the loop at the 5000-step cap -------------------- *)

\* Input sets: a time step of 0 or of one unit, frames that arrive early,
\* in time, or after more than 0.5 s.
CapDts == {0, 1}
CapElapsed == {-100, 2500, 6000}

\* Bounds of the exploration: the simulated time up to which frames begin and
\* the time debt up to which they begin.
CapHorizon == 10000
CapDebt == 10000

InitCap ==
    \E d \in CapDts :
        Mount([N |-> 2, K |-> 12, dt |-> d, noise |-> 0, topology |-> "all",
               erProb |-> 5, method |-> "euler", running |-> TRUE, speed |-> 2])

CapFrame == \E e \in CapElapsed : FrameBegin(e)

NextCap ==
    \/ tRef < CapHorizon /\ acc < CapDebt /\ CapFrame
    \/ LoopStep
    \/ FrameEnd

SpecCap == InitCap /\ [][NextCap]_vars

(* ----------------------- the loop over a long run --------------------- *)

\* A frame that runs three steps of 250 and records a sample, or none.
ChartElapsed == {0, 750}

\* Bound of the exploration: the simulated time up to which frames begin.
ChartHorizon == 453000

InitChart ==
    Mount([N |-> 2, K |-> 12, dt |-> 250, noise |-> 0, topology |-> "all",
           erProb |-> 5, method |-> "euler", running |-> TRUE, speed |-> 1])

ChartFrame == \E e \in ChartElapsed : FrameBegin(e)

NextChart ==
    \/ tRef < ChartHorizon /\ ChartFrame
    \/ LoopStep
    \/ FrameEnd
    \/ ToggleRun /\ UNCHANGED nOps
    \/ resetChart /\ UNCHANGED nOps

SpecChart == InitChart /\ [][NextChart]_vars

(* ------------------ the running loop, left to itself ------------------ *)

\* Elapsed wall times of the frames, all positive: 10 ms, 75 ms and 0.6 s.
LiveElapsed == {100, 750, 6000}

\* Bound: the simulated time up to which frames begin.
LiveHorizon == 500

\* The hook is mounted running, with dt = 0.025 s and speed 1, for every
\* method and topology; no parameter changes afterwards.
InitLive ==
    \E top \in Topologies, m \in Methods :
        Mount([N |-> 2, K |-> 12, dt |-> 250, noise |-> 0, topology |-> top,
               erProb |-> 5, method |-> m, running |-> TRUE, speed |-> 1])

LiveFrame == \E e \in LiveElapsed : tRef < LiveHorizon /\ FrameBegin(e)

NextLive == LiveFrame \/ LoopStep \/ FrameEnd

\* The browser runs a requested frame callback, and a callback that has
\* begun runs to its end.
SpecLive ==
    /\ InitLive
    /\ [][NextLive]_vars
    /\ WF_vars(LiveFrame)
    /\ WF_vars(LoopStep)
    /\ WF_vars(FrameEnd)

(* --------------------- KuramotoLivePage: seeding ---------------------- *)

\* The characters /[\s,]+/ matches.
SepChars == {",", " "}

\* The value of a decimal digit character.
DigitValue(c) == CHOOSE d \in 0 .. 9 : DigitChars[d + 1] = c

IsDigit(c) == \E d \in 0 .. 9 : DigitChars[d + 1] = c

RECURSIVE DecimalValue(_)
\* The number a non-empty sequence of digits denotes.
DecimalValue(t) ==
    IF Len(t) = 1 THEN DigitValue(t[1])
    ELSE 10 * DecimalValue(SubSeq(t, 1, Len(t) - 1)) + DigitValue(t[Len(t)])

\* A number, or NaN.
Num(v) == [nan |-> FALSE, v |-> v]
NaN == [nan |-> TRUE, v |-> 0]

\* +t for a token t without whitespace: the empty string converts to 0, a
\* digit string (after an optional sign) to its value, anything else to NaN.
ToNumber(t) ==
    IF t = << >> THEN Num(0)
    ELSE IF \A k \in 1 .. Len(t) : IsDigit(t[k]) THEN Num(DecimalValue(t))
    ELSE IF /\ t[1] \in {"-", "+"}
            /\ Len(t) > 1
            /\ \A k \in 2 .. Len(t) : IsDigit(t[k])
         THEN Num((IF t[1] = "-" THEN -1 ELSE 1) * DecimalValue(Tail(t)))
    ELSE NaN

RECURSIVE SplitFrom(_, _, _, _)
\* text.split(/[\s,]+/) from character i on: toks are the pieces closed so
\* far, cur the piece being read.  Every run of separators closes a piece,
\* also an empty one at the start, and the end closes the last piece.
SplitFrom(text, i, toks, cur) ==
    IF i > Len(text) THEN Append(toks, cur)
    ELSE IF text[i] \in SepChars
         THEN IF i > 1 /\ text[i - 1] \in SepChars
              THEN SplitFrom(text, i + 1, toks, cur)
              ELSE SplitFrom(text, i + 1, Append(toks, cur), << >>)
         ELSE SplitFrom(text, i + 1, toks, Append(cur, text[i]))

Split(text) == SplitFrom(text, 1, << >>, << >>)

\* text.split(/[\s,]+/).map(t => +t).filter(Number.isFinite)
ParseList(text) ==
    LET nums == [k \in 1 .. Len(Split(text)) |-> ToNumber(Split(text)[k])]
        fin == SelectSeq(nums, LAMBDA x : ~x.nan)
    IN  [k \in 1 .. Len(fin) |-> fin[k].v]

\* The fill of applyManualTheta and applyManualOmega for n entries.
ManualFill(toks, n) ==
    IF Len(toks) = 0 THEN Zeros(n)
    ELSE [i \in Idx(n) |-> IF i < Len(toks) THEN toks[i + 1] ELSE toks[Len(toks)]]

\* A call record that keeps the argument of the operation.
ArgRecord(fn, arg) ==
    [fn |-> fn, theta0 |-> theta, tmp0 |-> tmp, threw |-> FALSE, rngCalls |-> 0,
     arg |-> arg]

\* A seeding function of the page, called once on the fresh hook.
SeedOp(fn, arg) ==
    /\ pc = "idle"
    /\ call.fn = "init"
    /\ call' = ArgRecord(fn, arg)
    /\ UNCHANGED <<opts, ctx, tmp, spare, loopVars, frame, nOps, nText>>

applyManualTheta(text) ==
    /\ SeedOp("applyManualTheta", text)
    /\ theta' = [i \in Idx(opts.N) |-> wrapAngle(ManualFill(ParseList(text), opts.N)[i])]
    /\ UNCHANGED omega

applyManualOmega(text) ==
    /\ SeedOp("applyManualOmega", text)
    /\ omega' = ManualFill(ParseList(text), opts.N)
    /\ UNCHANGED theta

\* th[i] = Math.random() * TAU - Math.PI; u[i] is the draw, in quarters.
setPhasesUniform(u) ==
    /\ SeedOp("setPhasesUniform", u)
    /\ theta' = [i \in Idx(opts.N) |-> (u[i] * (2 * Pi)) \div 4 - Pi]
    /\ UNCHANGED omega

setPhasesZero ==
    /\ SeedOp("setPhasesZero", << >>)
    /\ theta' = Zeros(opts.N)
    /\ UNCHANGED omega

\* v = (i / n) * TAU; th[i] = Math.atan2(Math.sin(v), Math.cos(v))
setPhasesLinear ==
    /\ SeedOp("setPhasesLinear", << >>)
    /\ theta' = [i \in Idx(opts.N) |-> wrapAngle((i * 2 * Pi) \div opts.N)]
    /\ UNCHANGED omega

\* center = i % 2 === 0 ? 0 : Math.PI, plus the jitter j[i] of gaussian(0, s).
setPhasesTwoCluster(j) ==
    /\ SeedOp("setPhasesTwoCluster", j)
    /\ theta' = [i \in Idx(opts.N) |->
                    wrapAngle((IF i % 2 = 0 THEN 0 ELSE Pi) + j[i])]
    /\ UNCHANGED omega

\* The legacy KuramotoLive re-initialises the phases when N changes with
\* th[i] = Math.random() * Math.PI * 2.
randomizePhases(u) ==
    /\ SeedOp("randomizePhases", u)
    /\ theta' = [i \in Idx(opts.N) |-> (u[i] * (2 * Pi)) \div 4]
    /\ UNCHANGED omega

\* Input sets: the characters of a typed list, the ensemble sizes, the
\* uniform draws in quarters of [0, 1), the jitters of the two clusters.
ListChars == {"1", "2", "x", ",", " "}
SeedNs == {2, 4}
UnitDraws == 0 .. 3
Jitters == {-1, 0, 3}

\* Bound: the longest typed list.
MaxText == 4

\* The texts of at most MaxText characters.
Texts == UNION {[1 .. k -> ListChars] : k \in 0 .. MaxText}

InitSeed ==
    \E n \in SeedNs :
        Mount([N |-> n, K |-> 12, dt |-> 250, noise |-> 0, topology |-> "all",
               erProb |-> 5, method |-> "euler", running |-> FALSE, speed |-> 1])

ApplyManualTheta == \E text \in Texts : applyManualTheta(text)

ApplyManualOmega == \E text \in Texts : applyManualOmega(text)

SetPhasesUniform == \E u \in [Idx(opts.N) -> UnitDraws] : setPhasesUniform(u)

SetPhasesTwoCluster == \E j \in [Idx(opts.N) -> Jitters] : setPhasesTwoCluster(j)

RandomizePhases == \E u \in [Idx(opts.N) -> UnitDraws] : randomizePhases(u)

NextSeed ==
    \/ ApplyManualTheta
    \/ ApplyManualOmega
    \/ SetPhasesUniform
    \/ setPhasesZero
    \/ setPhasesLinear
    \/ SetPhasesTwoCluster
    \/ RandomizePhases

SpecSeed == InitSeed /\ [][NextSeed]_vars

(* ---------------- KuramotoLivePage: the oscillator count -------------- *)

\* The limits commitNFromText clamps N to.
MinCount == 2
MaxCount == 2000

RECURSIVE TrimStart(_)
TrimStart(t) == IF t # << >> /\ Head(t) = " " THEN TrimStart(Tail(t)) ELSE t

RECURSIVE TrimEnd(_)
TrimEnd(t) ==
    IF t # << >> /\ t[Len(t)] = " " THEN TrimEnd(SubSeq(t, 1, Len(t) - 1)) ELSE t

\* text.trim()
Trim(t) == TrimEnd(TrimStart(t))

RECURSIVE DigitPrefix(_)
\* The longest prefix of digits.
DigitPrefix(t) ==
    IF t # << >> /\ IsDigit(Head(t)) THEN <<Head(t)>> \o DigitPrefix(Tail(t)) ELSE << >>

\* A number beyond 32 bits is kept as hi * 2^16 + lo, with its sign apart.
Half == 65536

RECURSIVE Magnitude(_)
\* The number a sequence of digits denotes, as [hi, lo].
Magnitude(d) ==
    IF d = << >> THEN [hi |-> 0, lo |-> 0]
    ELSE LET m == Magnitude(SubSeq(d, 1, Len(d) - 1))
             l == m.lo * 10 + DigitValue(d[Len(d)])
         IN  [hi |-> m.hi * 10 + l \div Half, lo |-> l % Half]

\* Number.parseInt(text, 10): leading whitespace is skipped, a sign is read,
\* then the longest prefix of digits; NaN when there is no digit.
parseInt(text) ==
    LET t == TrimStart(text)
        signed == t # << >> /\ Head(t) \in {"-", "+"}
        d == DigitPrefix(IF signed THEN Tail(t) ELSE t)
    IN  IF d = << >> THEN [nan |-> TRUE, neg |-> FALSE, mag |-> Magnitude(<< >>)]
        ELSE [nan |-> FALSE, neg |-> signed /\ Head(t) = "-", mag |-> Magnitude(d)]

\* x | 0 for the number x = parsed: its low 32 bits as a signed integer.
ToInt32(x) ==
    LET h == x.mag.hi % Half
        r == (IF h >= Half \div 2 THEN h - Half ELSE h) * Half + x.mag.lo
    IN  IF x.neg /\ r # (-(Half \div 2)) * Half THEN -r ELSE r

\* onChange of the field: setNText(e.currentTarget.value)
EditN(text) ==
    /\ pc = "idle"
    /\ call' = ArgRecord("setNText", [text |-> text, N |-> opts.N])
    /\ nText' = text
    /\ UNCHANGED <<opts, theta, omega, ctx, tmp, spare, loopVars, frame, nOps>>

\* onBlur of the field: a text that is not all digits is reset to String(N).
BlurN ==
    /\ pc = "idle"
    /\ call' = ArgRecord("blur", [text |-> nText, N |-> opts.N])
    /\ nText' = IF nText # << >> /\ \A k \in 1 .. Len(nText) : IsDigit(nText[k])
                THEN nText ELSE String(opts.N)
    /\ UNCHANGED <<opts, theta, omega, ctx, tmp, spare, loopVars, frame, nOps>>

\* Enter in the field.  setN(clamped) runs the hook's effects on N.
commitNFromText ==
    /\ pc = "idle"
    /\ call' = ArgRecord("commitNFromText", [text |-> nText, N |-> opts.N])
    /\ UNCHANGED <<frame, nOps>>
    /\ IF Trim(nText) = << >>
       THEN UNCHANGED <<opts, theta, omega, ctx, tmp, spare, loopVars, nText>>
       ELSE LET parsed == parseInt(nText)
                clamped == IF ~parsed.nan
                           THEN Max(MinCount, Min(MaxCount, ToInt32(parsed)))
                           ELSE opts.N
            IN  /\ IF clamped # opts.N
                   THEN NEffect(clamped)
                   ELSE UNCHANGED <<opts, theta, omega, ctx, tmp, spare, loopVars>>
                /\ nText' = String(clamped)

\* The texts typed into the field.
CountTexts ==
    {<< >>, <<" ">>, <<"a", "b", "c">>, <<"0">>, <<"1">>, <<"5">>, <<" ", "7">>,
     <<"-", "4">>, <<"1", "2", "a">>, <<"2", "0", "0", "0">>, <<"2", "0", "0", "1">>,
     <<"9", "9", "9", "9">>, <<"3", "0", "0", "0", "0", "0", "0", "0", "0", "0">>}

InitCount ==
    \E n \in {2, 5} :
        Mount([N |-> n, K |-> 12, dt |-> 250, noise |-> 0, topology |-> "all",
               erProb |-> 5, method |-> "euler", running |-> FALSE, speed |-> 1])

TypeN == \E text \in CountTexts : EditN(text)

NextCount == TypeN \/ BlurN \/ commitNFromText

SpecCount == InitCount /\ [][NextCount]_vars

(* ------------------- buildAdjacency, called directly ------------------ *)

\* Bound: the largest N the adjacency is built for.
MaxAdjN == 5

\* Edge probabilities, in hundredths: 0, 0.5 and 1.
AdjProbs == {0, 50, 100}

\* The arguments type, N, p are in opts; nothing is built yet.
InitAdj ==
    \E n \in 2 .. MaxAdjN, top \in Topologies, p \in AdjProbs :
        /\ opts = [N |-> n, K |-> 0, dt |-> 0, noise |-> 0, topology |-> top,
                   erProb |-> p, method |-> "euler", running |-> FALSE, speed |-> 1]
        /\ theta = Zeros(n)
        /\ omega = Zeros(n)
        /\ ctx = [K |-> 0, adj |-> AdjNull]
        /\ tmp = LibScratch(n)
        /\ spare = << >>
        /\ rBuf = FreshChart(Zeros(n))
        /\ tRef = 0
        /\ lastChart = 0
        /\ raf = FALSE
        /\ acc = 0
        /\ steps = 0
        /\ pc = "idle"
        /\ err = FALSE
        /\ call = CallRecord("init", Zeros(n), LibScratch(n), FALSE, 0)
        /\ frame = [elapsed |-> 0, acc0 |-> 0, lastChart0 |-> 0, len0 |-> 1]
        /\ nOps = 0
        /\ nText = String(opts.N)

\* adj = buildAdjacency(type, N, p), the draws being u.
CallBuildAdjacency ==
    /\ call.fn = "init"
    /\ \E u \in [PairSet(opts.N) -> Uniforms] :
          ctx' = [ctx EXCEPT !.adj = buildAdjacency(opts.topology, opts.N, opts.erProb, u)]
    /\ call' = CallRecord("buildAdjacency", theta, tmp, FALSE, 0)
    /\ UNCHANGED <<opts, theta, omega, tmp, spare, loopVars, frame, nOps, nText>>

NextAdj == CallBuildAdjacency

SpecAdj == InitAdj /\ [][NextAdj]_vars

(* ---------------------- wrapAngle, called directly --------------------- *)

\* Bound: the largest angle wrapped, in quarter turns.
MaxAngle == 8

\* Two angles between -MaxAngle and MaxAngle; nothing is wrapped yet.
InitWrap ==
    /\ opts = [N |-> 2, K |-> 0, dt |-> 0, noise |-> 0, topology |-> "all",
               erProb |-> 0, method |-> "euler", running |-> FALSE, speed |-> 1]
    /\ theta \in [Idx(2) -> (-MaxAngle) .. MaxAngle]
    /\ omega = Zeros(2)
    /\ ctx = [K |-> 0, adj |-> AdjNull]
    /\ tmp = LibScratch(2)
    /\ spare = << >>
    /\ rBuf = << >>
    /\ tRef = 0
    /\ lastChart = 0
    /\ raf = FALSE
    /\ acc = 0
    /\ steps = 0
    /\ pc = "idle"
    /\ err = FALSE
    /\ call = CallRecord("init", theta, tmp, FALSE, 0)
    /\ frame = [elapsed |-> 0, acc0 |-> 0, lastChart0 |-> 0, len0 |-> 0]
    /\ nOps = 0
    /\ nText = String(opts.N)

\* theta[i] = wrapAngle(theta[i]) for one i, as the integrators' loops do.
CallWrapAngle ==
    \E i \in Idx(opts.N) :
        /\ theta' = [theta EXCEPT ![i] = wrapAngle(theta[i])]
        /\ call' = ArgRecord("wrapAngle", [i |-> i, x |-> theta[i]])
        /\ UNCHANGED <<opts, omega, ctx, tmp, spare, loopVars, frame, nOps, nText>>

NextWrap == CallWrapAngle

SpecWrap == InitWrap /\ [][NextWrap]_vars

(* ---------------------- gaussian, called in sequence ------------------- *)

\* Math.sqrt(-2 * Math.log(u)) in hundredths, for u a number of quarters.
Radius(u) == CASE u = 1 -> 167 [] u = 2 -> 118 [] u = 3 -> 76

\* while (u === 0) u = Math.random(): the first outcome of the stream us that
\* is not 0, and the stream after it.
DrawUniform(us) ==
    LET k == CHOOSE k \in 1 .. Len(us) : us[k] # 0 /\ \A j \in 1 .. (k - 1) : us[j] = 0
    IN  [u |-> us[k], rest |-> SubSeq(us, k + 1, Len(us))]

\* The pair (r cos t, r sin t) with r = sqrt(-2 log u) and t = 2 pi v, for u
\* and v drawn from the stream us.
FreshPair(us) ==
    LET u == DrawUniform(us).u
        v == DrawUniform(DrawUniform(us).rest).u
    IN  <<Radius(u) * Cos(v), Radius(u) * Sin(v)>>

\* Bound: the most outcomes of Math.random() one call of gaussian consumes.
MaxDraws == 4

\* Bound: the number of calls of gaussian in sequence.
MaxCalls == 4

\* The outcomes one call consumes when it draws: zeros, u, zeros, v.
Streams ==
    {us \in UNION {[1 .. k -> UnitDraws] : k \in 2 .. MaxDraws} :
        us[Len(us)] # 0 /\ Cardinality({k \in 1 .. Len(us) : us[k] # 0}) = 2}

InitGauss ==
    Mount([N |-> 2, K |-> 0, dt |-> 250, noise |-> 1, topology |-> "all",
           erProb |-> 5, method |-> "euler", running |-> FALSE, speed |-> 1])

\* z = gaussian(); Math.random() is called only when no deviate is cached.
\* The call record keeps the cache before the call, the outcomes consumed,
\* the deviate returned and the number of calls made so far.
CallGaussian ==
    /\ pc = "idle"
    /\ call.rngCalls < MaxCalls
    /\ \E us \in (IF spare # << >> THEN {<< >>} ELSE Streams) :
         LET g == gaussian([RngState(spare, IF us = << >> THEN << >> ELSE <<FreshPair(us)>>)
                               EXCEPT !.calls = call.rngCalls])
         IN  /\ spare' = g.rng.spare
             /\ call' = CallRecord("gaussian", theta, tmp, FALSE, g.rng.calls)
                            @@ [arg |-> [spare0 |-> spare, us |-> us, z |-> g.z]]
    /\ UNCHANGED <<opts, theta, omega, ctx, tmp, loopVars, frame, nOps, nText>>

NextGauss == CallGaussian

SpecGauss == InitGauss /\ [][NextGauss]_vars

(* ----------------------- claims on the library ------------------------ *)

\* Sum of sin(theta[j] - theta[i]) over the entries j of the sequence nb.
RECURSIVE SinSum(_, _, _)
SinSum(nb, th, i) ==
    IF nb = << >> THEN 0
    ELSE Sin(th[Head(nb)] - th[i]) + SinSum(Tail(nb), th, i)

\* The coupling term of oscillator i as the specification defines it:
\* (K/N) * sum over all j for all-to-all, (K/degree) * sum over the neighbors
\* for an adjacency, zero for an oscillator without neighbors.
CouplingTerm(i, th, c) ==
    IF c.adj.tag = "null"
    THEN (c.K * SumTo([j \in DOMAIN th |-> Sin(th[j] - th[i])], Len0(th))) \div Len0(th)
    ELSE IF Len(c.adj.lists[i]) = 0 THEN 0
    ELSE (c.K * SinSum(c.adj.lists[i], th, i)) \div Len(c.adj.lists[i])

\* C1: after field(out, theta, omega, ctx), for the all-to-all sentinel and for
\* every adjacency list, out[i] = omega[i] + couplingTerm(i) for every i
\* (so out[i] = omega[i] when K = 0 or when i has no neighbor), whatever out
\* held before the call.
C1_FieldWritesOut ==
    (call.fn = "field" /\ ctx.adj.tag \in {"null", "lists"}) =>
        /\ ~call.threw
        /\ \A i \in Idx(opts.N) : tmp.k1[i] = omega[i] + CouplingTerm(i, theta, ctx)

\* C2: one stepEuler with noiseAmplitude = 0 and K = 0 sets every theta[i] to
\* wrap(theta_old[i] + dt * omega[i]), for the all-to-all, ring and random
\* topologies and any prior contents of k1.
C2_EulerDrift ==
    (/\ call.fn = "stepEuler"
     /\ opts.noise = 0
     /\ ctx.K = 0
     /\ ctx.adj.tag \in {"null", "lists"}) =>
        /\ ~call.threw
        /\ \A i \in Idx(opts.N) :
              theta[i] = wrapAngle(call.theta0[i] + opts.dt * omega[i])

\* stepEuler replayed on the inputs of the last call: the same theta, omega,
\* dt, noise, context and scratch, and the same deviate source.
EulerReplay ==
    stepEuler(call.theta0, omega, opts.dt, opts.noise, ctx, call.arg, call.tmp0)

\* C18: with K = 0, whatever the noise amplitude, one stepRK4 leaves the same
\* theta as one stepEuler from the same theta, omega and dt with the deviate
\* source replayed, and both consume the same number of deviates.
C18_RK4EqualsEuler ==
    (call.fn = "stepRK4" /\ ctx.K = 0 /\ "tempTheta" \in DOMAIN call.tmp0) =>
        /\ call.threw = EulerReplay.threw
        /\ theta = EulerReplay.theta
        /\ call.rngCalls = EulerReplay.rng.calls

C20_WrapRangeIdempotent ==
    call.fn = "wrapAngle" =>
        LET w == theta[call.arg.i]
        IN  /\ -Pi < w
            /\ w <= Pi
            /\ wrapAngle(w) = w

\* An angle below -pi that is an odd multiple of pi has been wrapped to pi.
C20_Witness ==
    /\ call.fn = "wrapAngle"
    /\ call.arg.x < -Pi
    /\ theta[call.arg.i] = Pi

\* The integrators, and the last call being one of them on arguments of its
\* types: an adjacency that is null or lists, and for stepRK2 and stepRK4 a
\* scratch with tempTheta.
Steppers == {"stepEuler", "stepRK2", "stepRK4"}

TypedStep ==
    /\ call.fn \in Steppers
    /\ ctx.adj.tag \in {"null", "lists"}
    /\ call.fn = "stepEuler" \/ "tempTheta" \in DOMAIN call.tmp0

RECURSIVE Flatten(_)
Flatten(pairs) ==
    IF pairs = << >> THEN << >>
    ELSE <<Head(pairs)[1], Head(pairs)[2]>> \o Flatten(Tail(pairs))

\* The deviates a source yields, in order: the cached one, then the pairs.
Deviates(rng) == rng.spare \o Flatten(rng.pairs)

\* The deterministic increment of oscillator i in the last step, from the
\* velocities the step left in the scratch.
StepIncr(i) ==
    CASE call.fn = "stepEuler" -> opts.dt * tmp.k1[i]
      [] call.fn = "stepRK2" -> opts.dt * tmp.k2[i]
      [] call.fn = "stepRK4" ->
            (opts.dt * (tmp.k1[i] + 2 * tmp.k2[i] + 2 * tmp.k3[i] + tmp.k4[i])) \div 6

\* The last intermediate phase of oscillator i in the last step.
LastStage(i) ==
    IF call.fn = "stepRK2"
    THEN wrapAngle(call.theta0[i] + (opts.dt * tmp.k1[i]) \div 2)
    ELSE wrapAngle(call.theta0[i] + opts.dt * tmp.k3[i])

\* C21: a step with dt > 0 calls the deviate source exactly N times when
\* noiseAmplitude > 0, once per oscillator in index order and only in the
\* final update, each deviate scaled by sqrt(dt) * noiseAmplitude; with
\* noiseAmplitude <= 0 it calls the source not at all.
C21_DeviatesPerStep ==
    (TypedStep /\ opts.dt > 0) =>
        /\ ~call.threw
        /\ call.rngCalls = IF opts.noise > 0 THEN opts.N ELSE 0
        /\ \A i \in Idx(opts.N) :
              theta[i] = wrapAngle(call.theta0[i] + StepIncr(i)
                            + IF opts.noise > 0
                              THEN Sqrt(opts.dt) * opts.noise * Deviates(call.arg)[i + 1]
                              ELSE 0)
        /\ call.fn # "stepEuler" => \A i \in Idx(opts.N) : tmp.tempTheta[i] = LastStage(i)

\* A noisy stepRK4 on three oscillators has drawn three deviates, and the
\* deviate of oscillator 1 has moved its phase.
C21_Witness ==
    /\ TypedStep
    /\ call.fn = "stepRK4"
    /\ opts.dt = 1
    /\ opts.noise > 0
    /\ opts.N > 2
    /\ call.rngCalls = opts.N
    /\ theta[1] # wrapAngle(call.theta0[1] + StepIncr(1))

\* The outcomes of a stream that are not 0, in order.
NonZero(us) == SelectSeq(us, LAMBDA x : x # 0)

\* C22: a call of gaussian() made while no deviate is cached draws a pair of
\* nonzero uniforms, returns one deviate and caches the other; a call made
\* while a deviate is cached returns it, draws nothing and clears the cache.
C22_SpareReturnedOnce ==
    call.fn = "gaussian" =>
        IF call.arg.spare0 # << >>
        THEN /\ call.arg.us = << >>
             /\ call.arg.z = call.arg.spare0[1]
             /\ spare = << >>
        ELSE /\ Len(NonZero(call.arg.us)) = 2
             /\ call.arg.z = Radius(NonZero(call.arg.us)[1]) * Cos(NonZero(call.arg.us)[2])
             /\ spare = <<Radius(NonZero(call.arg.us)[1]) * Sin(NonZero(call.arg.us)[2])>>

\* A call made while the deviate -1.67 was cached has returned it and
\* cleared the cache.
C22_Witness ==
    /\ call.fn = "gaussian"
    /\ call.arg.spare0 = <<-167>>
    /\ call.arg.z = -167
    /\ spare = << >>

\* Every element of the vector v is a wrapped angle.
Wrapped(v) == \A i \in DOMAIN v : -Pi < v[i] /\ v[i] <= Pi

\* C23: every phase vector stepRK2 and stepRK4 pass to field after the first
\* stage is wrapped in every element: the vector left in tempTheta (the
\* midpoint of RK2, stage 4 of RK4) and the vectors of stages 2 and 3 of RK4,
\* built from the velocities k1 and k2 the step left in the scratch.
C23_StagesWrapped ==
    (TypedStep /\ call.fn \in {"stepRK2", "stepRK4"}) =>
        /\ ~call.threw
        /\ DOMAIN tmp.tempTheta = Idx(opts.N)
        /\ Wrapped(tmp.tempTheta)
        /\ call.fn = "stepRK4" =>
              /\ Wrapped(Stage(call.theta0, tmp.k1, opts.dt, 2))
              /\ Wrapped(Stage(call.theta0, tmp.k2, opts.dt, 2))

\* A stepRK4 whose stage 4 lies beyond pi before it is wrapped.
C23_Witness ==
    /\ TypedStep
    /\ call.fn = "stepRK4"
    /\ ~call.threw
    /\ \E i \in Idx(opts.N) :
          /\ call.theta0[i] + opts.dt * tmp.k3[i] > Pi
          /\ tmp.tempTheta[i] <= Pi

NamedIntegrator == [Euler |-> "stepEuler", RK2 |-> "stepRK2", RK4 |-> "stepRK4"]

\* C3: with a method Controls offers (Euler, RK2, RK4), a step of the running
\* loop invokes the integrator of that name, and the step does not fail.
C3_ControlsMethodInvoked ==
    (call.fn \in StepFns /\ opts.method \in ControlsMethods) =>
        /\ call.fn = NamedIntegrator[opts.method]
        /\ ~call.threw

\* C4: for every topology Controls can select, the adjacency in the coupling
\* context is null or a list of exactly N neighbor lists, never undefined.
C4_AdjacencyNullOrLists ==
    opts.topology \in ControlsTopologies =>
        \/ ctx.adj.tag = "null"
        \/ ctx.adj.tag = "lists" /\ DOMAIN ctx.adj.lists = Idx(opts.N)

\* C5: the sample buffer never holds more than 600 entries.
C5_BufferBounded == Len(rBuf) <= ChartCap

\* A 601st sample was recorded: the buffer is full and its first entry is no
\* longer the sample of time 0.
C5_Witness == Len(rBuf) = ChartCap /\ rBuf[1].t > 0 /\ call.fn = "frameEnd"

\* The wall time a frame adds, as the claims state it.
Clamped(e) == IF e <= 0 THEN 0 ELSE IF e > MaxWall THEN MaxWall ELSE e

\* C6: within a frame at most 5000 steps run; a step is taken only while the
\* debt is at least dt, and each subtracts exactly dt from the debt (also for
\* dt = 0); when the loop condition fails the frame ends.
C6_FrameBounded ==
    (pc = "loop" \/ call.fn = "frameEnd") =>
        /\ steps <= MaxSteps
        /\ acc + steps * opts.dt = frame.acc0 + Clamped(frame.elapsed) * opts.speed
        /\ steps > 0 => acc >= 0
        /\ (pc = "loop" /\ steps = MaxSteps) => ENABLED FrameEnd

\* A frame with dt = 0 that ended after exactly 5000 steps.
C6_Witness == call.fn = "frameEnd" /\ opts.dt = 0 /\ steps = MaxSteps

\* C7: while paused no frame is pending and none runs; a step from a paused
\* state is no integrator step or frame, changes theta only by seeding or
\* resizing, and changes the simulation time and the buffer only by resetChart.
C7_PausedNoTime ==
    /\ [](~opts.running => (~raf /\ pc = "idle"))
    /\ [][~opts.running =>
            /\ call'.fn \notin StepFns \cup {"frameBegin", "frameEnd"}
            /\ theta' # theta => call'.fn \in {"seedPhases", "setN"}
            /\ (tRef' # tRef \/ rBuf' # rBuf) => call'.fn = "resetChart"]_vars

\* Paused by a toggle after the loop had advanced the simulation time.
C7_Witness == ~opts.running /\ call.fn = "toggleRun" /\ tRef > 0 /\ Len(rBuf) > 1

\* C8: a frame adds clamp(elapsed, 0, 0.5 s) * speed to the time debt.
C8_WallTimeClamped ==
    call.fn = "frameBegin" => acc - frame.acc0 = Clamped(frame.elapsed) * opts.speed

\* A frame arriving after more than 0.5 s with debt left: it adds 0.5 * speed.
C8_Witness ==
    /\ call.fn = "frameBegin"
    /\ frame.elapsed > MaxWall
    /\ frame.acc0 > 0
    /\ acc = frame.acc0 + MaxWall * opts.speed

\* What a frame did to the chart, seen at its end.
SampleAppended ==
    /\ lastChart = tRef
    /\ rBuf[Len(rBuf)].t = tRef
    /\ Len(rBuf) = Min(frame.len0 + 1, ChartCap)
NoSampleAppended == Len(rBuf) = frame.len0 /\ lastChart = frame.lastChart0

\* C9, as claimed: a frame appends one sample iff it ran a step and at least
\* 0.05 s of simulated time lie between it and the last sample.
C9_SampleAtLeastGap ==
    call.fn = "frameEnd" =>
        IF steps > 0 /\ tRef - frame.lastChart0 >= ChartGap
        THEN SampleAppended ELSE NoSampleAppended

\* C9, amended: a frame appends one sample iff it ran a step and more than
\* 0.05 s of simulated time lie between it and the last sample.
C9_SampleBeyondGap ==
    call.fn = "frameEnd" =>
        IF steps > 0 /\ tRef - frame.lastChart0 > ChartGap
        THEN SampleAppended ELSE NoSampleAppended

\* A frame that ran steps up to a gap of exactly 0.05 s and appended nothing.
C9_Witness ==
    /\ call.fn = "frameEnd"
    /\ steps > 0
    /\ tRef - frame.lastChart0 = ChartGap
    /\ NoSampleAppended

\* C10, as claimed: no backlog is carried over, so every frame starts with a
\* debt below dt.
C10_BacklogDropped ==
    (call.fn = "frameBegin" /\ opts.dt > 0) => frame.acc0 < opts.dt

\* C10, amended: a frame that ends at the cap keeps the whole leftover debt,
\* requests the next frame without error, and the next frame adds to it.
C10_BacklogCarried ==
    /\ [](call.fn = "frameEnd" /\ steps = MaxSteps =>
            /\ acc = frame.acc0 + Clamped(frame.elapsed) * opts.speed - MaxSteps * opts.dt
            /\ raf
            /\ ~err)
    /\ [][(call.fn = "frameEnd" /\ steps = MaxSteps /\ call'.fn = "frameBegin") =>
            /\ frame'.acc0 = acc
            /\ acc' = acc + Clamped(frame'.elapsed) * opts.speed]_vars

\* A frame that measured no elapsed time and yet runs steps, out of the
\* backlog the capped frame before it left.
C10_Witness ==
    /\ pc = "loop"
    /\ frame.elapsed <= 0
    /\ opts.dt > 0
    /\ frame.acc0 >= opts.dt
    /\ steps > 0

(* ---------------------- claims on buildAdjacency ---------------------- *)

\* The set of entries of a neighbor list.
Entries(l) == {l[k] : k \in 1 .. Len(l)}

\* A list adjacency was built for the ring or the random topology.
Built(type) ==
    /\ call.fn = "buildAdjacency"
    /\ opts.topology = type
    /\ ctx.adj.tag = "lists"
    /\ DOMAIN ctx.adj.lists = Idx(opts.N)

\* C11: the ring gives oscillator i exactly the neighbors (i-1) mod N and
\* (i+1) mod N, each once: two entries for N >= 3, one for N = 2.
C11_RingNeighbors ==
    (call.fn = "buildAdjacency" /\ opts.topology = "ring") =>
        /\ Built("ring")
        /\ \A i \in Idx(opts.N) :
              /\ Entries(ctx.adj.lists[i]) = {(i - 1) % opts.N, (i + 1) % opts.N}
              /\ Len(ctx.adj.lists[i]) = IF opts.N = 2 THEN 1 ELSE 2

\* The ring of two oscillators.
C11_Witness == Built("ring") /\ opts.N = 2 /\ ctx.adj.lists[0] = <<1>>

\* C12: the ring and random adjacencies are symmetric.
C12_Symmetric ==
    (call.fn = "buildAdjacency" /\ opts.topology \in {"ring", "erdos-renyi"}) =>
        /\ ctx.adj.tag = "lists"
        /\ \A i, j \in Idx(opts.N) :
              j \in Entries(ctx.adj.lists[i]) <=> i \in Entries(ctx.adj.lists[j])

\* A random graph with an edge and a missing edge.
C12_Witness ==
    /\ Built("erdos-renyi")
    /\ \E i, j \in Idx(opts.N) : i # j /\ j \in Entries(ctx.adj.lists[i])
    /\ \E i, j \in Idx(opts.N) : i # j /\ j \notin Entries(ctx.adj.lists[i])

\* C13: no neighbor list of the ring or a random graph holds i itself, an
\* index outside [0, N), or an index twice.
C13_NeighborSets ==
    (call.fn = "buildAdjacency" /\ opts.topology \in {"ring", "erdos-renyi"}) =>
        /\ ctx.adj.tag = "lists"
        /\ \A i \in Idx(opts.N) :
              /\ i \notin Entries(ctx.adj.lists[i])
              /\ Entries(ctx.adj.lists[i]) \subseteq Idx(opts.N)
              /\ Cardinality(Entries(ctx.adj.lists[i])) = Len(ctx.adj.lists[i])

\* A random graph on the largest N in which some node has two neighbors.
C13_Witness ==
    /\ Built("erdos-renyi")
    /\ opts.N = MaxAdjN
    /\ \E i \in Idx(opts.N) : Len(ctx.adj.lists[i]) >= 2

\* C14: the random topology yields the complete graph for p = 1 and the
\* empty graph for p = 0, whatever the draws.
C14_RandomExtremes ==
    (call.fn = "buildAdjacency" /\ opts.topology = "erdos-renyi") =>
        /\ opts.erProb = 100 =>
              \A i \in Idx(opts.N) : Entries(ctx.adj.lists[i]) = Idx(opts.N) \ {i}
        /\ opts.erProb = 0 =>
              \A i \in Idx(opts.N) : ctx.adj.lists[i] = << >>

\* The complete graph built with p = 1.
C14_Witness ==
    /\ Built("erdos-renyi")
    /\ opts.erProb = 100
    /\ opts.N >= 3
    /\ \A i \in Idx(opts.N) : Len(ctx.adj.lists[i]) = opts.N - 1

(* ----------------------- claims on the seeding ------------------------ *)

\* The start positions of the tokens of a text: the maximal runs of
\* characters that are no separators.
TokenStarts(text) ==
    {a \in 1 .. Len(text) :
        text[a] \notin SepChars /\ (a = 1 \/ text[a - 1] \in SepChars)}

\* The token that starts at position a.
TokenAt(text, a) ==
    LET b == CHOOSE e \in a .. Len(text) :
                /\ \A k \in a .. e : text[k] \notin SepChars
                /\ (e = Len(text) \/ text[e + 1] \in SepChars)
    IN  SubSeq(text, a, b)

RECURSIVE ValuesFrom(_, _)
\* v1..vk: the values of the numeric tokens, in order, from position a on.
ValuesFrom(text, a) ==
    IF a > Len(text) THEN << >>
    ELSE IF a \notin TokenStarts(text) THEN ValuesFrom(text, a + 1)
    ELSE LET t == TokenAt(text, a)
         IN  (IF \A k \in 1 .. Len(t) : IsDigit(t[k])
              THEN <<DecimalValue(t)>> ELSE << >>) \o ValuesFrom(text, a + Len(t))

\* The entries the claimed rule gives: 0 without values, else v(i+1), then vk.
Seeded(text, i) ==
    LET v == ValuesFrom(text, 1)
    IN  IF Len(v) = 0 THEN 0
        ELSE IF i < Len(v) THEN v[i + 1] ELSE v[Len(v)]

\* C15: manual seeding drops the non-numeric tokens and gives entry i the
\* value v(i+1), or the last value vk from i = k on, or 0 when none is valid,
\* wherever the separators stand (phases are wrapped).
C15_ManualSeeding ==
    /\ call.fn = "applyManualOmega" =>
          \A i \in Idx(opts.N) : omega[i] = Seeded(call.arg, i)
    /\ call.fn = "applyManualTheta" =>
          \A i \in Idx(opts.N) : theta[i] = wrapAngle(Seeded(call.arg, i))

\* C16: after any phase seeding every theta[i] lies in (-pi, pi].
C16_SeededInRange ==
    call.fn \in {"setPhasesUniform", "setPhasesZero", "setPhasesLinear",
                 "setPhasesTwoCluster", "applyManualTheta", "randomizePhases"} =>
        \A i \in Idx(opts.N) : -Pi < theta[i] /\ theta[i] <= Pi

(* -------------------- claims on the oscillator count ------------------ *)

\* The text is a whole number, with or without sign, after trimming.
IsNumeral(t) ==
    LET d == IF t # << >> /\ Head(t) \in {"-", "+"} THEN Tail(t) ELSE t
    IN  d # << >> /\ \A k \in 1 .. Len(d) : IsDigit(d[k])

RECURSIVE StripZeros(_)
StripZeros(d) == IF Len(d) > 1 /\ Head(d) = "0" THEN StripZeros(Tail(d)) ELSE d

\* The value N is to take for the numeral t: the number it denotes, brought
\* into [2, 2000].
ClampedNumeral(t) ==
    LET d == StripZeros(IF Head(t) \in {"-", "+"} THEN Tail(t) ELSE t)
    IN  IF Head(t) = "-" THEN MinCount
        ELSE IF Len(d) > 4 THEN MaxCount
        ELSE IF DecimalValue(d) < MinCount THEN MinCount
        ELSE IF DecimalValue(d) > MaxCount THEN MaxCount
        ELSE DecimalValue(d)

\* C17: N is always an integer in [2, 2000] and no error is entered; a commit
\* of a number below 2 gives 2, above 2000 gives 2000, of a number between
\* gives that number, and of an empty or non-numeric text leaves N unchanged.
C17_CountClamped ==
    /\ opts.N \in MinCount .. MaxCount
    /\ ~err
    /\ call.fn = "commitNFromText" =>
          LET t == Trim(call.arg.text)
          IN  /\ (t = << >> \/ (~IsDigit(Head(t)) /\ ~IsNumeral(t))) => opts.N = call.arg.N
              /\ IsNumeral(t) => opts.N = ClampedNumeral(t)

(* ---------------------- claims on the time debt ----------------------- *)

\* C29: with dt > 0, at the end of every frame the time debt is at least 0,
\* and it is below dt unless the frame executed exactly 5000 steps.
C29_DebtBelowDt ==
    (call.fn = "frameEnd" /\ opts.dt > 0) =>
        /\ acc >= 0
        /\ acc < opts.dt \/ steps = MaxSteps

\* A frame that ended at the cap with a debt of at least dt, after a frame
\* that ended with a debt below dt.
C29_Witness ==
    /\ call.fn = "frameEnd"
    /\ opts.dt > 0
    /\ steps = MaxSteps
    /\ acc >= opts.dt
    /\ frame.acc0 < opts.dt
    /\ tRef > MaxSteps * opts.dt

(* -------------------- claims on the hook's buffers -------------------- *)

\* Every buffer of the scratch t has the indices 0 .. n-1.
ScratchSized(t, n) == \A k \in DOMAIN t : DOMAIN t[k] = Idx(n)

\* C24: whenever an integrator step has run in useKuramoto, theta, omega and
\* every scratch buffer, before and after the step, and for the ring and the
\* random topology the adjacency, have the length N of the current options.
C24_BuffersSized ==
    call.fn \in Steppers =>
        /\ DOMAIN call.theta0 = Idx(opts.N)
        /\ DOMAIN theta = Idx(opts.N)
        /\ DOMAIN omega = Idx(opts.N)
        /\ ScratchSized(call.tmp0, opts.N)
        /\ ScratchSized(tmp, opts.N)
        /\ opts.topology \in {"ring", "erdos-renyi"} =>
              /\ ctx.adj.tag = "lists"
              /\ DOMAIN ctx.adj.lists = Idx(opts.N)

\* A step on a ring has run after N was changed from 2 to 3.
C24_Witness ==
    /\ call.fn = "stepEuler"
    /\ ~call.threw
    /\ nOps = 1
    /\ opts.N = 3
    /\ opts.topology = "ring"
    /\ tRef > 0

\* C25: the scratch the loop passes provides what the selected integrator
\* reads, k1..k4 and the temporary phase vector of stepRK2 and stepRK4, each
\* of length N, so that an RK2 or RK4 step of the loop completes.
C25_ScratchComplete ==
    (call.fn \in {"stepRK2", "stepRK4"} /\ ctx.adj.tag \in {"null", "lists"}) =>
        /\ {"k1", "k2", "k3", "k4", "tempTheta"} \subseteq DOMAIN call.tmp0
        /\ ScratchSized(call.tmp0, opts.N)
        /\ ~call.threw
        /\ ~err

\* C27: a change of K alone sets K in the coupling context and leaves the
\* adjacency as it was: the random graph is not drawn again.
C27_KChangeKeepsAdjacency ==
    [][(call'.fn = "setCtxOpt" /\ opts'.K # opts.K) =>
          /\ ctx'.K = opts'.K
          /\ ctx'.adj = ctx.adj]_vars

(* ------------------ claims on the loop left to itself ----------------- *)

\* C28: while the simulation stays running with dt > 0, speed > 0 and
\* unchanged parameters, and frames come with positive elapsed wall time,
\* eventually a step is executed and the simulation time increases: from 0,
\* and again from dt.
C28_EventuallySteps ==
    \A t \in {0, 250} : (tRef = t) ~> (tRef > t)

(* --------------------- claims on the sample buffer -------------------- *)

\* C30: with dt > 0 the sample buffer is ordered by strictly increasing
\* simulation time in every state, and a sample recorded into a full buffer
\* evicts the front entry: the others move up and the new one is last.
C30_BufferOrdered ==
    /\ [](opts.dt > 0 =>
            \A k \in 1 .. (Len(rBuf) - 1) : rBuf[k].t < rBuf[k + 1].t)
    /\ [][(opts.dt > 0 /\ Len(rBuf) = ChartCap /\ lastChart' # lastChart
            /\ call'.fn = "frameEnd") =>
              /\ Len(rBuf') = ChartCap
              /\ SubSeq(rBuf', 1, ChartCap - 1) = Tail(rBuf)
              /\ rBuf'[ChartCap].t = tRef']_vars

\* A full buffer after evictions: its first sample is later than the gap
\* to the second one, and its last sample is the current one.
C30_Witness ==
    /\ call.fn = "frameEnd"
    /\ Len(rBuf) = ChartCap
    /\ rBuf[1].t > rBuf[2].t - rBuf[1].t
    /\ rBuf[ChartCap].t = tRef

====
